---------------------------- MODULE Spec2Model ----------------------------
(***************************************************************************)
(* TextPreprocessor (src/preprocess/preprocess.py): a pipeline of pure     *)
(* string transforms.  A string is a sequence of Unicode code points       *)
(* (naturals), so every character class of the source's regular            *)
(* expressions is a set of code points.                                    *)
(***************************************************************************)
EXTENDS Integers, Sequences, FiniteSets, TLC

(***************************************************************************)
(* Generic string helpers (Python str / re semantics).                     *)
(***************************************************************************)

\* s[i..] starts with p
StartsWithAt(s, i, p) ==
    /\ i + Len(p) - 1 <= Len(s)
    /\ \A k \in 1..Len(p) : s[i + k - 1] = p[k]

\* p occurs in s (Python: p in s)
Contains(s, p) == \E i \in 1..(Len(s) + 1) : StartsWithAt(s, i, p)

\* s from index i to the end
Drop(s, i) == SubSeq(s, i, Len(s))

\* str.isspace(): the characters str.strip() trims and \s matches
Whitespace ==
    (9..13) \cup (28..32) \cup {133, 160, 5760} \cup (8192..8202)
        \cup {8232, 8233, 8239, 8287, 12288}

IsSpace(c) == c \in Whitespace

\* \d of a str pattern, restricted to the ASCII digits (the only decimal
\* digits among the code points of the inputs)
IsDigit(c) == c \in 48..57

\* [A-Z] and [a-z]
IsUpper(c) == c \in 65..90
IsLower(c) == c \in 97..122

\* \w of a str pattern: alphanumerics and underscore; beyond ASCII the
\* Latin-1 letters and the Latin Extended letters the inputs can hold
IsWord(c) ==
    \/ IsDigit(c) \/ IsUpper(c) \/ IsLower(c) \/ c = 95
    \/ c \in {170, 178, 179, 181, 185, 186, 188, 189, 190}
    \/ (c \in 192..591 /\ c \notin {215, 247})
    \/ c \in 7680..7935

\* str.strip()
RECURSIVE LStrip(_)
LStrip(s) ==
    IF s = << >> THEN << >>
    ELSE IF IsSpace(Head(s)) THEN LStrip(Tail(s)) ELSE s

RECURSIVE RStrip(_)
RStrip(s) ==
    IF s = << >> THEN << >>
    ELSE IF IsSpace(s[Len(s)]) THEN RStrip(SubSeq(s, 1, Len(s) - 1)) ELSE s

\* str.strip() mistaken for str.lstrip(): trailing whitespace is kept
strip_left_only(s) == LStrip(s)

strip(s) == RStrip(LStrip(s))

\* str.replace(old, new): leftmost non-overlapping occurrences; an empty
\* old matches before every character and at the end
RECURSIVE replace(_, _, _)
replace(s, old, new) ==
    IF old = << >>
    THEN IF s = << >> THEN new
         ELSE new \o <<Head(s)>> \o replace(Tail(s), old, new)
    ELSE IF s = << >> THEN << >>
    ELSE IF StartsWithAt(s, 1, old)
         THEN new \o replace(Drop(s, Len(old) + 1), old, new)
         ELSE <<Head(s)>> \o replace(Tail(s), old, new)

\* str.split('\n'): always at least one line
RECURSIVE split(_)
split(s) ==
    IF \A i \in 1..Len(s) : s[i] # 10 THEN <<s>>
    ELSE LET k == CHOOSE i \in 1..Len(s) :
                       s[i] = 10 /\ \A j \in 1..(i - 1) : s[j] # 10
         IN  <<SubSeq(s, 1, k - 1)>> \o split(Drop(s, k + 1))

\* '\n\n'.join(lines): lines joined as paragraphs
RECURSIVE join_blank_line(_)
join_blank_line(lines) ==
    IF lines = << >> THEN << >>
    ELSE IF Len(lines) = 1 THEN lines[1]
    ELSE lines[1] \o <<10, 10>> \o join_blank_line(Tail(lines))

\* '\n'.join(lines)
RECURSIVE join(_)
join(lines) ==
    IF lines = << >> THEN << >>
    ELSE IF Len(lines) = 1 THEN lines[1]
    ELSE lines[1] \o <<10>> \o join(Tail(lines))

\* length of the maximal run of characters of the set C starting at s[i]
RECURSIVE RunLen(_, _, _)
RunLen(s, i, C) ==
    IF i > Len(s) THEN 0
    ELSE IF s[i] \in C THEN 1 + RunLen(s, i + 1, C) ELSE 0

\* re.sub(r'[C]+', rep, s): every maximal run of class C becomes rep
RECURSIVE SubRuns(_, _, _)
SubRuns(s, C, rep) ==
    IF s = << >> THEN << >>
    ELSE IF Head(s) \in C
         THEN rep \o SubRuns(Drop(s, RunLen(s, 1, C) + 1), C, rep)
         ELSE <<Head(s)>> \o SubRuns(Tail(s), C, rep)

\* re.sub(r'[C]', rep, s): every character of class C becomes rep
RECURSIVE SubChars(_, _, _)
SubChars(s, C, rep) ==
    IF s = << >> THEN << >>
    ELSE (IF Head(s) \in C THEN rep ELSE <<Head(s)>>)
         \o SubChars(Tail(s), C, rep)

(***************************************************************************)
(* The pipeline stages, in the order of the source file.                   *)
(***************************************************************************)

\* Canonical compositions of unicodedata.normalize('NFC', .) for a base
\* letter followed by U+0301 COMBINING ACUTE ACCENT (769), the one
\* combining mark of the inputs: base |-> precomposed letter
NFCAcute ==
    (65 :> 193) @@ (67 :> 262) @@ (69 :> 201) @@ (71 :> 500) @@
    (73 :> 205) @@ (75 :> 7728) @@ (76 :> 313) @@ (77 :> 7742) @@
    (78 :> 323) @@ (79 :> 211) @@ (80 :> 7764) @@ (82 :> 340) @@
    (83 :> 346) @@ (85 :> 218) @@ (87 :> 7810) @@ (89 :> 221) @@
    (90 :> 377) @@ (97 :> 225) @@ (99 :> 263) @@ (101 :> 233) @@
    (103 :> 501) @@ (105 :> 237) @@ (107 :> 7729) @@ (108 :> 314) @@
    (109 :> 7743) @@ (110 :> 324) @@ (111 :> 243) @@ (112 :> 7765) @@
    (114 :> 341) @@ (115 :> 347) @@ (117 :> 250) @@ (119 :> 7811) @@
    (121 :> 253) @@ (122 :> 378) @@ (194 :> 7844) @@ (226 :> 7845)

\* Step 2, normalize_unicode: unicodedata.normalize('NFC', text)
RECURSIVE normalize_unicode(_)
normalize_unicode(text) ==
    IF text = << >> THEN << >>
    ELSE IF Len(text) >= 2 /\ text[2] = 769 /\ text[1] \in DOMAIN NFCAcute
         THEN <<NFCAcute[text[1]]>> \o normalize_unicode(Drop(text, 3))
         ELSE <<Head(text)>> \o normalize_unicode(Tail(text))

\* [\x00-\x08\x0B\x0C\x0E-\x1F\x7F-\x9F]
ControlChars == (0..8) \cup {11, 12} \cup (14..31) \cup (127..159)

\* Step 3, remove_control_characters
remove_control_characters(text) == SubChars(text, ControlChars, << >>)

\* [ \t]
SpaceTab == {32, 9}

\* re.sub(r'\r\n|\r', '\n', text)
RECURSIVE NormalizeLineEndings(_)
NormalizeLineEndings(s) ==
    IF s = << >> THEN << >>
    ELSE IF StartsWithAt(s, 1, <<13, 10>>)
         THEN <<10>> \o NormalizeLineEndings(Drop(s, 3))
    ELSE IF Head(s) = 13
         THEN <<10>> \o NormalizeLineEndings(Tail(s))
    ELSE <<Head(s)>> \o NormalizeLineEndings(Tail(s))

\* re.sub(r'[C]+$', '', s, flags=re.MULTILINE): a run of class C that
\* reaches a line feed or the end of the string is removed
RECURSIVE StripLineEnds(_, _)
StripLineEnds(s, C) ==
    IF s = << >> THEN << >>
    ELSE IF Head(s) \in C
         THEN LET n == RunLen(s, 1, C)
              IN  IF n = Len(s) \/ s[n + 1] = 10
                  THEN StripLineEnds(Drop(s, n + 1), C)
                  ELSE SubSeq(s, 1, n) \o StripLineEnds(Drop(s, n + 1), C)
         ELSE <<Head(s)>> \o StripLineEnds(Tail(s), C)

\* Step 4, normalize_whitespace
normalize_whitespace(text) ==
    StripLineEnds(NormalizeLineEndings(SubRuns(text, SpaceTab, <<32>>)),
                  SpaceTab)

\* re.sub(r'\n{k,}', rep, s): every maximal run of at least k line feeds
\* becomes rep, a shorter run is kept
RECURSIVE CollapseNewlines(_, _, _)
CollapseNewlines(s, k, rep) ==
    IF s = << >> THEN << >>
    ELSE IF Head(s) = 10
         THEN LET n == RunLen(s, 1, {10})
              IN  (IF n >= k THEN rep ELSE SubSeq(s, 1, n))
                  \o CollapseNewlines(Drop(s, n + 1), k, rep)
         ELSE <<Head(s)>> \o CollapseNewlines(Tail(s), k, rep)

\* the flattening branch written with '' as replacement: a run of line
\* feeds is deleted instead of becoming one line feed
remove_excessive_newlines_deleting(text, preserve) ==
    IF preserve THEN CollapseNewlines(text, 3, <<10, 10>>)
    ELSE CollapseNewlines(text, 2, << >>)

\* Step 5, remove_excessive_newlines
remove_excessive_newlines(text, preserve) ==
    IF preserve THEN CollapseNewlines(text, 3, <<10, 10>>)
    ELSE CollapseNewlines(text, 2, <<10>>)

\* [.!?:;]
SentenceEnd == {46, 33, 63, 58, 59}

\* text_no_newlines: re.sub(r'\n+', ' ', text), then
\* re.sub(r'\s+', ' ', .).strip()
CollapseWhitespace(text) ==
    strip(SubRuns(SubRuns(text, {10}, <<32>>), Whitespace, <<32>>))

\* re.sub(r'([.!?:;])\s+', r'\1\n', s)
RECURSIVE BreakAfterPunctuation(_)
BreakAfterPunctuation(s) ==
    IF s = << >> THEN << >>
    ELSE IF Head(s) \in SentenceEnd /\ Len(s) >= 2 /\ IsSpace(s[2])
         THEN <<Head(s), 10>>
              \o BreakAfterPunctuation(Drop(s, 2 + RunLen(s, 2, Whitespace)))
         ELSE <<Head(s)>> \o BreakAfterPunctuation(Tail(s))

\* (Mr|Mrs|Dr|Ms|Prof|vs|etc|i\.e|e\.g), in the order of the alternation
Abbreviations ==
    << <<77, 114>>, <<77, 114, 115>>, <<68, 114>>, <<77, 115>>,
       <<80, 114, 111, 102>>, <<118, 115>>, <<101, 116, 99>>,
       <<105, 46, 101>>, <<101, 46, 103>> >>

\* \b between s[i-1] and s[i]
WordBoundaryAt(s, i) ==
    (i > 1 /\ IsWord(s[i - 1])) # (i <= Len(s) /\ IsWord(s[i]))

\* the alternatives that match at s[i] and are followed by a line feed
AbbreviationsAt(s, i) ==
    {k \in 1..Len(Abbreviations) :
        StartsWithAt(s, i, Abbreviations[k] \o <<10>>)}

\* re.sub(r'\b(Mr|Mrs|Dr|Ms|Prof|vs|etc|i\.e|e\.g)\n', r'\1. ', s),
\* scanning s from index i
RECURSIVE RestoreAbbreviationsFrom(_, _)
RestoreAbbreviationsFrom(s, i) ==
    IF i > Len(s) THEN << >>
    ELSE IF WordBoundaryAt(s, i) /\ AbbreviationsAt(s, i) # {}
         THEN LET k == CHOOSE m \in AbbreviationsAt(s, i) :
                           \A n \in AbbreviationsAt(s, i) : m <= n
                  a == Abbreviations[k]
              IN  a \o <<46, 32>>
                  \o RestoreAbbreviationsFrom(s, i + Len(a) + 1)
         ELSE <<s[i]>> \o RestoreAbbreviationsFrom(s, i + 1)

RestoreAbbreviations(s) == RestoreAbbreviationsFrom(s, 1)

\* re.sub(r'(\d)\n(\d)', r'\1.\2', s)
RECURSIVE RejoinDecimals(_)
RejoinDecimals(s) ==
    IF s = << >> THEN << >>
    ELSE IF Len(s) >= 3 /\ IsDigit(s[1]) /\ s[2] = 10 /\ IsDigit(s[3])
         THEN <<s[1], 46, s[3]>> \o RejoinDecimals(Drop(s, 4))
         ELSE <<Head(s)>> \o RejoinDecimals(Tail(s))

\* re.sub(r' +\n', '\n', s)
RECURSIVE StripSpacesBeforeNewline(_)
StripSpacesBeforeNewline(s) ==
    IF s = << >> THEN << >>
    ELSE IF Head(s) = 32
         THEN LET n == RunLen(s, 1, {32})
              IN  IF n < Len(s) /\ s[n + 1] = 10
                  THEN StripSpacesBeforeNewline(Drop(s, n + 1))
                  ELSE SubSeq(s, 1, n)
                       \o StripSpacesBeforeNewline(Drop(s, n + 1))
         ELSE <<Head(s)>> \o StripSpacesBeforeNewline(Tail(s))

\* length of the match of [A-Z][a-z]+ \d+, at s[i], 0 when there is none
MarkerLenAt(s, i) ==
    IF i > Len(s) \/ ~IsUpper(s[i]) THEN 0
    ELSE LET l == RunLen(s, i + 1, 97..122)
             d == RunLen(s, i + l + 2, 48..57)
         IN  IF /\ l >= 1
                /\ i + l + 1 <= Len(s) /\ s[i + l + 1] = 32
                /\ d >= 1
                /\ i + l + d + 2 <= Len(s) /\ s[i + l + d + 2] = 44
             THEN l + d + 3
             ELSE 0

\* re.sub(r'\n([A-Z][a-z]+ \d+,)', r'\n\n\1', s)
RECURSIVE MarkParagraphs(_)
MarkParagraphs(s) ==
    IF s = << >> THEN << >>
    ELSE IF Head(s) = 10 /\ MarkerLenAt(s, 2) > 0
         THEN <<10, 10>> \o SubSeq(s, 2, 1 + MarkerLenAt(s, 2))
              \o MarkParagraphs(Drop(s, 2 + MarkerLenAt(s, 2)))
         ELSE <<Head(s)>> \o MarkParagraphs(Tail(s))

\* Step 5.5, remove_mid_sentence_newlines
remove_mid_sentence_newlines(text) ==
    MarkParagraphs(StripSpacesBeforeNewline(RejoinDecimals(
        RestoreAbbreviations(BreakAfterPunctuation(
            CollapseWhitespace(text))))))

\* the length test written with > instead of >=
KeepLine_strict(line, min) == strip(line) # << >> /\ Len(strip(line)) > min

\* the length test left out: every non-blank line is kept
KeepLine_no_minimum(line, min) == strip(line) # << >>

\* line.strip() and len(line.strip()) >= self.min_line_length
KeepLine(line, min) == strip(line) # << >> /\ Len(strip(line)) >= min

\* Step 6, remove_empty_lines
remove_empty_lines(text, min) ==
    join(SelectSeq(split(text), LAMBDA line : KeepLine(line, min)))

\* the display with key and value of the stray-marker entry exchanged
replacements_literal_swapped ==
    << << <<226, 8364, 8482>>, <<39>> >>,
       << <<226, 8364, 339>>, <<34>> >>,
       << <<226, 8364>>, <<34>> >>,
       << <<226, 8364, 34>>, <<8212>> >>,
       << <<226, 8364, 34>>, <<8211>> >>,
       << << >>, <<194>> >>,
       << <<226, 8364, 166>>, <<46, 46, 46>> >> >>

\* the dict display of fix_common_encoding_issues as written, one
\* <<pattern, replacement>> per source line
replacements_literal ==
    << << <<226, 8364, 8482>>, <<39>> >>,
       << <<226, 8364, 339>>, <<34>> >>,
       << <<226, 8364>>, <<34>> >>,
       << <<226, 8364, 34>>, <<8212>> >>,
       << <<226, 8364, 34>>, <<8211>> >>,
       << <<194>>, << >> >>,
       << <<226, 8364, 166>>, <<46, 46, 46>> >> >>

\* A dict display keeps a repeated key at its first position with its
\* last value; items() then iterates in insertion order
DictItems(lit) ==
    LET first(i) == \A j \in 1..(i - 1) : lit[j][1] # lit[i][1]
        last(i)  == CHOOSE j \in i..Len(lit) :
                        /\ lit[j][1] = lit[i][1]
                        /\ \A m \in (j + 1)..Len(lit) : lit[m][1] # lit[i][1]
        keys     == SelectSeq([i \in 1..Len(lit) |-> i], first)
    IN  [n \in 1..Len(keys) |-> <<lit[keys[n]][1], lit[last(keys[n])][2]>>]

replacements == DictItems(replacements_literal)

\* for old, new in replacements.items(): text = text.replace(old, new)
RECURSIVE ApplyReplacements(_, _)
ApplyReplacements(text, items) ==
    IF items = << >> THEN text
    ELSE ApplyReplacements(replace(text, items[1][1], items[1][2]),
                           Tail(items))

\* Step 7, fix_common_encoding_issues
fix_common_encoding_issues(text) == ApplyReplacements(text, replacements)

\* the character classes of the two quote substitutions as the source
\* file holds them: three times the ASCII double quote (34), three times
\* the ASCII apostrophe (39)
DoubleQuoteClass == {34, 34, 34}
SingleQuoteClass == {39, 39, 39}

\* the en dash and the em dash
DashClass == {8211, 8212}

\* Step 8, clean_special_characters
clean_special_characters(text) ==
    replace(SubChars(SubChars(SubChars(text, DoubleQuoteClass, <<34>>),
                              SingleQuoteClass, <<39>>),
                     DashClass, <<45>>),
            <<8230>>, <<46, 46, 46>>)

\* preprocess_text: the stages in the order of the calls, then text.strip()
preprocess_text(text, preserve, min) ==
    strip(remove_empty_lines(remove_mid_sentence_newlines(
        remove_excessive_newlines(normalize_whitespace(
            clean_special_characters(fix_common_encoding_issues(
                remove_control_characters(normalize_unicode(text))))),
            preserve)), min))

(***************************************************************************)
(* State machine: one TextPreprocessor and one call of preprocess_text on  *)
(* an input, stage by stage, followed by a second call on its own result;  *)
(* or one direct call of a single stage method on the input.               *)
(***************************************************************************)

\* Inputs are concatenations of at most MaxFrags fragments
MaxFrags == 3

Fragments ==
    { <<226>>,                  \* a with circumflex, head of every mojibake
      <<194>>,                  \* A with circumflex, the stray marker
      <<8364, 8482>>,           \* euro sign, trade mark: tail of apostrophe
      <<8364, 166>>,            \* euro sign, broken bar: tail of ellipsis
      <<8220>>,                 \* left curly double quote
      <<8212>>,                 \* em dash
      <<68, 114>>,              \* Dr
      <<46, 32>>,               \* period, space
      <<51>>,                   \* 3
      <<65, 98, 32, 49, 44>>,   \* Ab 1,
      <<10>>,                   \* line feed
      <<10, 10, 10>>,           \* two blank lines
      <<160>>,                  \* no-break space
      <<9, 13>>,                \* tab, carriage return
      <<769>>,                  \* combining acute accent
      <<1>> }                   \* a C0 control character

RECURSIVE Concats(_)
Concats(n) ==
    IF n = 0 THEN { << >> }
    ELSE Concats(n - 1)
         \cup {s \o f : s \in Concats(n - 1), f \in Fragments}

Inputs == Concats(MaxFrags)

\* min_line_length values of the constructor (3 is the default)
MinLineLengths == {1, 3}

VARIABLES
    raw,                  \* the argument of the first call
    text,                 \* the local variable text / the value returned
    stage_in,             \* the argument of the stage that ran last
    result,               \* the value the first call of preprocess_text returned
    pc,                   \* the stage that ran last
    preserve_paragraphs,  \* self.preserve_paragraphs
    min_line_length,      \* self.min_line_length
    main_pc,              \* main: the statement that ran last
    api_key,              \* main: api_key, "unread" before os.getenv
    response,             \* main: how generate_content ended
    model_calls,          \* main: number of generate_content calls made
    output_file,          \* main: state of output/diagnosis_extraction.json
    reported              \* main: the except clause that reported an error

\* the variables of main
main == <<main_pc, api_key, response, model_calls, output_file, reported>>

vars == <<raw, text, stage_in, result, pc, preserve_paragraphs,
          min_line_length, main>>

config == <<raw, result, preserve_paragraphs, min_line_length, main>>

\* TextPreprocessor.__init__ and the argument of the call
Init ==
    /\ raw \in Inputs
    /\ text = raw
    /\ stage_in = << >>
    /\ result = << >>
    /\ pc = "start"
    /\ preserve_paragraphs \in BOOLEAN
    /\ min_line_length \in MinLineLengths
    /\ main_pc = "start"
    /\ api_key = "unread"
    /\ response = "none"
    /\ model_calls = 0
    /\ output_file = "untouched"
    /\ reported = "none"

\* the stages of preprocess_text, one action each:
\* text = self.<stage>(text)
NormalizeUnicode ==
    /\ pc = "start"
    /\ pc' = "normalize_unicode"
    /\ stage_in' = text
    /\ text' = normalize_unicode(text)
    /\ UNCHANGED config

RemoveControlCharacters ==
    /\ pc = "normalize_unicode"
    /\ pc' = "remove_control_characters"
    /\ stage_in' = text
    /\ text' = remove_control_characters(text)
    /\ UNCHANGED config

FixCommonEncodingIssues ==
    /\ pc = "remove_control_characters"
    /\ pc' = "fix_common_encoding_issues"
    /\ stage_in' = text
    /\ text' = fix_common_encoding_issues(text)
    /\ UNCHANGED config

CleanSpecialCharacters ==
    /\ pc = "fix_common_encoding_issues"
    /\ pc' = "clean_special_characters"
    /\ stage_in' = text
    /\ text' = clean_special_characters(text)
    /\ UNCHANGED config

NormalizeWhitespace ==
    /\ pc = "clean_special_characters"
    /\ pc' = "normalize_whitespace"
    /\ stage_in' = text
    /\ text' = normalize_whitespace(text)
    /\ UNCHANGED config

RemoveExcessiveNewlines ==
    /\ pc = "normalize_whitespace"
    /\ pc' = "remove_excessive_newlines"
    /\ stage_in' = text
    /\ text' = remove_excessive_newlines(text, preserve_paragraphs)
    /\ UNCHANGED config

RemoveMidSentenceNewlines ==
    /\ pc = "remove_excessive_newlines"
    /\ pc' = "remove_mid_sentence_newlines"
    /\ stage_in' = text
    /\ text' = remove_mid_sentence_newlines(text)
    /\ UNCHANGED config

RemoveEmptyLines ==
    /\ pc = "remove_mid_sentence_newlines"
    /\ pc' = "remove_empty_lines"
    /\ stage_in' = text
    /\ text' = remove_empty_lines(text, min_line_length)
    /\ UNCHANGED config

\* text = text.strip(); return text
FinalStrip ==
    /\ pc = "remove_empty_lines"
    /\ pc' = "done"
    /\ stage_in' = text
    /\ text' = strip(text)
    /\ UNCHANGED config

\* preprocess_text called again on the value it returned
Rerun ==
    /\ pc = "done"
    /\ pc' = "rerun"
    /\ result' = text
    /\ stage_in' = text
    /\ text' = preprocess_text(text, preserve_paragraphs, min_line_length)
    /\ UNCHANGED <<raw, preserve_paragraphs, min_line_length, main>>

Next ==
    \/ NormalizeUnicode
    \/ RemoveControlCharacters
    \/ FixCommonEncodingIssues
    \/ CleanSpecialCharacters
    \/ NormalizeWhitespace
    \/ RemoveExcessiveNewlines
    \/ RemoveMidSentenceNewlines
    \/ RemoveEmptyLines
    \/ FinalStrip
    \/ Rerun

Spec == Init /\ [][Next]_vars

\* a stage method called directly on the input, outside preprocess_text,
\* one action each
CallNormalizeUnicode ==
    /\ pc = "start"
    /\ pc' = "call_normalize_unicode"
    /\ stage_in' = raw
    /\ text' = normalize_unicode(raw)
    /\ UNCHANGED config

CallRemoveControlCharacters ==
    /\ pc = "start"
    /\ pc' = "call_remove_control_characters"
    /\ stage_in' = raw
    /\ text' = remove_control_characters(raw)
    /\ UNCHANGED config

CallFixCommonEncodingIssues ==
    /\ pc = "start"
    /\ pc' = "call_fix_common_encoding_issues"
    /\ stage_in' = raw
    /\ text' = fix_common_encoding_issues(raw)
    /\ UNCHANGED config

CallCleanSpecialCharacters ==
    /\ pc = "start"
    /\ pc' = "call_clean_special_characters"
    /\ stage_in' = raw
    /\ text' = clean_special_characters(raw)
    /\ UNCHANGED config

CallNormalizeWhitespace ==
    /\ pc = "start"
    /\ pc' = "call_normalize_whitespace"
    /\ stage_in' = raw
    /\ text' = normalize_whitespace(raw)
    /\ UNCHANGED config

CallRemoveExcessiveNewlines ==
    /\ pc = "start"
    /\ pc' = "call_remove_excessive_newlines"
    /\ stage_in' = raw
    /\ text' = remove_excessive_newlines(raw, preserve_paragraphs)
    /\ UNCHANGED config

CallRemoveMidSentenceNewlines ==
    /\ pc = "start"
    /\ pc' = "call_remove_mid_sentence_newlines"
    /\ stage_in' = raw
    /\ text' = remove_mid_sentence_newlines(raw)
    /\ UNCHANGED config

CallRemoveEmptyLines ==
    /\ pc = "start"
    /\ pc' = "call_remove_empty_lines"
    /\ stage_in' = raw
    /\ text' = remove_empty_lines(raw, min_line_length)
    /\ UNCHANGED config

NextCall ==
    \/ CallNormalizeUnicode
    \/ CallRemoveControlCharacters
    \/ CallFixCommonEncodingIssues
    \/ CallCleanSpecialCharacters
    \/ CallNormalizeWhitespace
    \/ CallRemoveExcessiveNewlines
    \/ CallRemoveMidSentenceNewlines
    \/ CallRemoveEmptyLines

SpecCall == Init /\ [][NextCall]_vars

\* preprocess_text, or remove_empty_lines called directly on the input
NextFilter ==
    \/ Next
    \/ CallRemoveEmptyLines

SpecFilter == Init /\ [][NextFilter]_vars

\* preprocess_text called on the same input by a preprocessor that differs
\* only in preserve_paragraphs
PreprocessOtherSetting ==
    /\ pc = "done"
    /\ pc' = "other_setting"
    /\ result' = text
    /\ stage_in' = raw
    /\ text' = preprocess_text(raw, ~preserve_paragraphs, min_line_length)
    /\ UNCHANGED <<raw, preserve_paragraphs, min_line_length, main>>

\* preprocess_text under one setting, then under the other
NextSettings ==
    \/ Next
    \/ PreprocessOtherSetting

SpecSettings == Init /\ [][NextSettings]_vars

(***************************************************************************)
(* main of src/agents/agent.py: preprocess the case file, read the         *)
(* credential, call the model once, parse the response, write the output   *)
(* file, print the diagnoses.  Each raise is caught by one of the except   *)
(* clauses of main, which reports the error and ends the run.              *)
(***************************************************************************)

\* TextPreprocessor(preserve_paragraphs=True, min_line_length=3, ...)
InitMain ==
    /\ Init
    /\ preserve_paragraphs = TRUE
    /\ min_line_length = 3

\* processed_text = preprocessor.preprocess_file(str(case_file)): the file
\* is read and preprocessed, or open() raises FileNotFoundError
MainPreprocessFile ==
    /\ main_pc = "start"
    /\ \/ /\ text' = preprocess_text(raw, preserve_paragraphs,
                                     min_line_length)
          /\ pc' = "done"
          /\ main_pc' = "preprocessed"
          /\ UNCHANGED reported
       \/ /\ reported' = "FileNotFoundError"
          /\ main_pc' = "end"
          /\ UNCHANGED <<text, pc>>
    /\ UNCHANGED <<raw, stage_in, result, preserve_paragraphs,
                   min_line_length, api_key, response, model_calls,
                   output_file>>

\* the credential check left out: the run goes on without a key
MainGetApiKey_unchecked ==
    /\ main_pc = "preprocessed"
    /\ \E key \in {"", "key"} :
           /\ api_key' = key
           /\ main_pc' = "have_key"
           /\ UNCHANGED reported
    /\ UNCHANGED <<raw, text, stage_in, result, pc, preserve_paragraphs,
                   min_line_length, response, model_calls, output_file>>

\* api_key = os.getenv('GEMINI_API_KEY'); if not api_key: raise ValueError
\* ("" stands for an unset or empty variable)
MainGetApiKey ==
    /\ main_pc = "preprocessed"
    /\ \E key \in {"", "key"} :
           /\ api_key' = key
           /\ IF key = ""
              THEN reported' = "Exception" /\ main_pc' = "end"
              ELSE main_pc' = "have_key" /\ UNCHANGED reported
    /\ UNCHANGED <<raw, text, stage_in, result, pc, preserve_paragraphs,
                   min_line_length, response, model_calls, output_file>>

\* client = genai.Client(api_key=api_key), which may raise
MainCreateClient ==
    /\ main_pc = "have_key"
    /\ \/ main_pc' = "client" /\ UNCHANGED reported
       \/ reported' = "Exception" /\ main_pc' = "end"
    /\ UNCHANGED <<raw, text, stage_in, result, pc, preserve_paragraphs,
                   min_line_length, api_key, response, model_calls,
                   output_file>>

\* response = client.models.generate_content(...): the call raises, or
\* returns text that is not JSON, a JSON object, or a JSON number
MainGenerateContent ==
    /\ main_pc = "client"
    /\ model_calls' = model_calls + 1
    /\ \E outcome \in {"raised", "malformed", "object", "number"} :
           /\ response' = outcome
           /\ IF outcome = "raised"
              THEN reported' = "Exception" /\ main_pc' = "end"
              ELSE main_pc' = "responded" /\ UNCHANGED reported
    /\ UNCHANGED <<raw, text, stage_in, result, pc, preserve_paragraphs,
                   min_line_length, api_key, output_file>>

\* response_data = json.loads(response.text)
MainParseResponse ==
    /\ main_pc = "responded"
    /\ IF response = "malformed"
       THEN reported' = "JSONDecodeError" /\ main_pc' = "end"
       ELSE main_pc' = "parsed" /\ UNCHANGED reported
    /\ UNCHANGED <<raw, text, stage_in, result, pc, preserve_paragraphs,
                   min_line_length, api_key, response, model_calls,
                   output_file>>

\* with open(output_file, 'w', ...) as f: json.dump(response_data, f, ...):
\* the file is written; or open() raises and the file is untouched; or
\* the write raises after open() has truncated the file
MainWriteOutput ==
    /\ main_pc = "parsed"
    /\ \/ /\ output_file' = "written"
          /\ main_pc' = "saved"
          /\ UNCHANGED reported
       \/ /\ output_file' \in {"untouched", "truncated"}
          /\ reported' = "Exception"
          /\ main_pc' = "end"
    /\ UNCHANGED <<raw, text, stage_in, result, pc, preserve_paragraphs,
                   min_line_length, api_key, response, model_calls>>

\* the printing of the diagnoses: 'diagnostics' in response_data raises
\* TypeError when response_data is a number
MainPrintResults ==
    /\ main_pc = "saved"
    /\ main_pc' = "end"
    /\ IF response = "number"
       THEN reported' = "Exception"
       ELSE UNCHANGED reported
    /\ UNCHANGED <<raw, text, stage_in, result, pc, preserve_paragraphs,
                   min_line_length, api_key, response, model_calls,
                   output_file>>

NextMain ==
    \/ MainPreprocessFile
    \/ MainGetApiKey
    \/ MainCreateClient
    \/ MainGenerateContent
    \/ MainParseResponse
    \/ MainWriteOutput
    \/ MainPrintResults

SpecMain == InitMain /\ [][NextMain]_vars

(***************************************************************************)
(* Properties.                                                             *)
(***************************************************************************)

\* the lines of a returned text; '\n'.join of no line is the empty string
Lines(s) == IF s = << >> THEN << >> ELSE split(s)

\* C1: preprocess_text is idempotent: a second call on the value the first
\* call returned returns that value unchanged.
C1_Idempotent == pc = "rerun" => text = result

\* every character of the patterns of the repair table
PatternChars ==
    UNION { {replacements[k][1][i] : i \in 1..Len(replacements[k][1])} :
            k \in 1..Len(replacements) }

NoPatternChar(s) == \A i \in 1..Len(s) : s[i] \notin PatternChars

\* C2: encoding-artifact repair replaces every occurrence of a table
\* pattern by that pattern's own replacement (longest pattern first): an
\* input a + pattern + b, with a and b free of pattern characters, becomes
\* a + replacement + b.
C2_LongestPrefixPriority ==
    pc = "call_fix_common_encoding_issues" =>
        \A k \in 1..Len(replacements) :
            \A i \in 1..(Len(stage_in) + 1) :
                LET p == replacements[k][1]
                    a == SubSeq(stage_in, 1, i - 1)
                    b == Drop(stage_in, i + Len(p))
                IN  (/\ StartsWithAt(stage_in, i, p)
                     /\ NoPatternChar(a) /\ NoPatternChar(b))
                    => text = a \o replacements[k][2] \o b

\* curly single quotes, curly double quotes, en dash, em dash, ellipsis
Typographic == {8216, 8217, 8220, 8221, 8211, 8212, 8230}

\* C3: the output of clean_special_characters, and the value
\* preprocess_text returns, hold no curly quote, no en or em dash and no
\* ellipsis glyph.
C3_NoTypographic ==
    pc \in {"clean_special_characters", "done"} =>
        \A i \in 1..Len(text) : text[i] \notin Typographic

\* C4: when the input of remove_mid_sentence_newlines holds an abbreviation
\* token followed by a period and whitespace, the output has no line break
\* right after that abbreviation's period.
C4_NoBreakAfterAbbreviation ==
    pc = "call_remove_mid_sentence_newlines" =>
        \A k \in 1..Len(Abbreviations) :
            (\E i \in 1..Len(stage_in) :
                /\ WordBoundaryAt(stage_in, i)
                /\ StartsWithAt(stage_in, i, Abbreviations[k] \o <<46>>)
                /\ i + Len(Abbreviations[k]) + 1 <= Len(stage_in)
                /\ IsSpace(stage_in[i + Len(Abbreviations[k]) + 1]))
            => ~Contains(text, Abbreviations[k] \o <<46, 10>>)

\* C5: the output of remove_mid_sentence_newlines has no line break
\* between two digits that a period separates: the break after the period
\* is suppressed and the digits are rejoined as digit, period, digit.
C5_NoBreakInsideDecimal ==
    pc = "call_remove_mid_sentence_newlines" =>
        \A i \in 1..Len(text) :
            ~(/\ i + 3 <= Len(text)
              /\ IsDigit(text[i]) /\ text[i + 1] = 46
              /\ text[i + 2] = 10 /\ IsDigit(text[i + 3]))

\* the source lines whose trimmed text is non-empty, shorter than min and
\* part of no other source line
ShortSourceLines(s, min) ==
    {i \in 1..Len(split(s)) :
        /\ strip(split(s)[i]) # << >>
        /\ Len(strip(split(s)[i])) < min
        /\ \A j \in 1..Len(split(s)) :
               j # i => ~Contains(split(s)[j], strip(split(s)[i]))}

\* C6 as stated: the value preprocess_text returns does not contain the
\* text of a source line shorter than min_line_length.
C6_ShortSourceLinesDropped ==
    pc = "done" =>
        \A i \in ShortSourceLines(raw, min_line_length) :
            ~Contains(text, strip(split(raw)[i]))

\* the number of lines of a sequence of lines equal to v
Count(lines, v) == Cardinality({i \in 1..Len(lines) : lines[i] = v})

\* C6 as amended: remove_empty_lines, called directly or as a stage of
\* preprocess_text, drops exactly the lines of its own input whose trimmed
\* text is empty or shorter than min_line_length and keeps the other
\* lines, in order.
C6_FilterDropsShortLines ==
    pc \in {"call_remove_empty_lines", "remove_empty_lines"} =>
        LET inl  == split(stage_in)
            outl == Lines(text)
            long(l) == Len(strip(l)) >= min_line_length /\ Len(strip(l)) >= 1
        IN  /\ \A i \in 1..Len(outl) : long(outl[i])
            /\ \A i \in 1..Len(inl) :
                   long(inl[i]) => Count(outl, inl[i]) = Count(inl, inl[i])
            /\ Len(outl) = Cardinality({i \in 1..Len(inl) : long(inl[i])})
            /\ \A i, j \in 1..Len(outl) :
                   i < j => \E m, n \in 1..Len(inl) :
                                m < n /\ inl[m] = outl[i] /\ inl[n] = outl[j]

\* "Ab 1,\n3": the short line "3" is dropped, the long line is kept
C6_Witness ==
    /\ pc = "call_remove_empty_lines"
    /\ min_line_length = 3
    /\ stage_in = <<65, 98, 32, 49, 44, 10, 51>>
    /\ text = <<65, 98, 32, 49, 44>>

\* C7: preprocess_text returns a string for every input, it returns the
\* empty string for the empty string.
C7_Total ==
    /\ pc \in {"done", "rerun"} => text \in Seq(Nat)
    /\ (pc = "done" /\ raw = << >>) => text = << >>

C7_Witness == pc = "done" /\ raw = << >> /\ text = << >>

\* C8: every non-empty line of the value preprocess_text returns has
\* trimmed length at least min_line_length.
C8_LineLength ==
    pc = "done" =>
        \A i \in 1..Len(split(text)) :
            split(text)[i] # << >>
                => Len(strip(split(text)[i])) >= min_line_length

\* "3. Ab 1," : the line "3." is shorter than 3 and is dropped
C8_Witness ==
    /\ pc = "done"
    /\ min_line_length = 3
    /\ raw = <<51, 46, 32, 65, 98, 32, 49, 44>>
    /\ text = <<65, 98, 32, 49, 44>>

\* C9: in the value preprocess_text returns no line ends with a space or
\* tab, no 3 space/tab characters are consecutive, and there is no
\* carriage return.
C9_Whitespace ==
    pc = "done" =>
        /\ \A i \in 1..Len(text) :
               text[i] \in SpaceTab => (i < Len(text) /\ text[i + 1] # 10)
        /\ \A i \in 1..Len(text) :
               ~(/\ i + 2 <= Len(text)
                 /\ text[i] \in SpaceTab
                 /\ text[i + 1] \in SpaceTab
                 /\ text[i + 2] \in SpaceTab)
        /\ \A i \in 1..Len(text) : text[i] # 13

\* an input with a tab, a carriage return and a space before a line end
C9_Witness ==
    /\ pc = "done"
    /\ \E i \in 1..Len(raw) : raw[i] = 13
    /\ \E i \in 1..Len(raw) : raw[i] = 9
    /\ \E i \in 1..Len(raw) :
           raw[i] = 32 /\ i < Len(raw) /\ raw[i + 1] \in {9, 10}
    /\ \E i \in 1..Len(text) : text[i] = 10

\* C10: the value preprocess_text returns has no 3 consecutive line feeds
\* when preserve_paragraphs is true and no 2 consecutive line feeds when
\* it is false.
C10_ParagraphCollapse ==
    pc = "done" =>
        /\ preserve_paragraphs => ~Contains(text, <<10, 10, 10>>)
        /\ ~preserve_paragraphs => ~Contains(text, <<10, 10>>)

\* ". Ab 1," gets a blank line before the marker in re-segmentation, and
\* the returned text has two lines with one line feed between them
C10_Witness ==
    /\ pc = "done"
    /\ ~preserve_paragraphs
    /\ min_line_length = 1
    /\ raw = <<51, 46, 32, 65, 98, 32, 49, 44>>
    /\ text = <<51, 46, 10, 65, 98, 32, 49, 44>>

\* C11: in every run of main the model is called at most once, and only
\* after preprocess_text has returned and a credential was found; the
\* output file is touched only after the response parsed as JSON; and a
\* run that ends after a missing credential, a failed model call or a
\* malformed response has reported the error, has not touched the output
\* file and has made no second model call.
C11_ExtractionFailureHandling ==
    /\ model_calls <= 1
    /\ model_calls >= 1 => (pc = "done" /\ api_key = "key")
    /\ output_file # "untouched" =>
           (response \in {"object", "number"} /\ main_pc \in {"saved", "end"})
    /\ (main_pc = "end" /\ (api_key = "" \/ response \in {"raised", "malformed"}))
           => /\ reported # "none"
              /\ output_file = "untouched"
              /\ model_calls = (IF api_key = "" THEN 0 ELSE 1)

\* a run that ended on a malformed response: one call, the error of
\* json.loads reported, nothing written
C11_Witness ==
    /\ main_pc = "end"
    /\ api_key = "key"
    /\ response = "malformed"
    /\ model_calls = 1
    /\ reported = "JSONDecodeError"
    /\ output_file = "untouched"

=============================================================================
